---- MODULE Spec2Model ----
(***************************************************************************)
(* A model of qwik-speak's two build tools:                                *)
(*   - the inlining plugin  (tools/inline/plugin.ts), and                  *)
(*   - the extraction tool  (tools/extract/index.ts).                      *)
(*                                                                         *)
(* A text (a JavaScript string) is a sequence of lexemes.  A lexeme is a   *)
(* TLA+ string standing for one character ("a", "$", "'") or for a run of  *)
(* characters none of the modelled code looks inside ("$translate(",       *)
(* "it-IT", " && ").  Texts are compared, searched, split and concatenated *)
(* lexeme by lexeme, the way the code does it character by character.      *)
(*                                                                         *)
(* A translation tree (a JavaScript object) is a sequence of entries in    *)
(* property order; an entry is a leaf (a text) or a node (a sub-tree).     *)
(***************************************************************************)
EXTENDS Integers, Sequences, FiniteSets, TLC

\* ------------------------------------------------------------------------
\* Bounds of the model
\* ------------------------------------------------------------------------

\* the largest number of call expressions in one code block
MaxCalls == 2

\* ------------------------------------------------------------------------
\* Texts
\* ------------------------------------------------------------------------

Range(s) == { s[i] : i \in 1..Len(s) }

RECURSIVE Concat(_)
\* the concatenation of a sequence of texts
Concat(ss) == IF ss = <<>> THEN <<>> ELSE Head(ss) \o Concat(Tail(ss))

\* text s holds text p at position i
OccursAt(s, p, i) ==
    /\ i >= 1
    /\ i + Len(p) - 1 <= Len(s)
    /\ \A j \in 1..Len(p) : s[i + j - 1] = p[j]

\* String.prototype.indexOf: the first position of p in s, 0 when there is none
IndexOf(s, p) ==
    IF \E i \in 1..(Len(s) + 1) : OccursAt(s, p, i)
    THEN CHOOSE i \in 1..(Len(s) + 1) :
            /\ OccursAt(s, p, i)
            /\ \A j \in 1..(i - 1) : ~OccursAt(s, p, j)
    ELSE 0

\* the number of positions at which s holds p
Count(s, p) == Cardinality({ i \in 1..Len(s) : OccursAt(s, p, i) })

RECURSIVE SplitFrom(_, _, _, _)
SplitFrom(s, sep, i, cur) ==
    IF i > Len(s) THEN <<cur>>
    ELSE IF s[i] = sep THEN <<cur>> \o SplitFrom(s, sep, i + 1, <<>>)
    ELSE SplitFrom(s, sep, i + 1, Append(cur, s[i]))

\* String.prototype.split with a separator that is one lexeme: the text is
\* cut at EVERY occurrence of the separator
Split(s, sep) == SplitFrom(s, sep, 1, <<>>)

\* the quote characters; DQUOTE stands for the double quote and BACKTICK for
\* the back quote
Quotes == {"DQUOTE", "'", "BACKTICK"}

\* tools/inline/plugin.ts trimQuotes: one leading and one trailing quote
\* character are removed
trimQuotes(value) ==
    LET a == IF Len(value) > 0 /\ value[1] \in Quotes THEN Tail(value) ELSE value
    IN  IF Len(a) > 0 /\ a[Len(a)] \in Quotes THEN SubSeq(a, 1, Len(a) - 1) ELSE a

\* tools/inline/plugin.ts quoteValue: the value in backticks
quoteValue(value) == <<"BACKTICK">> \o value \o <<"BACKTICK">>

\* tools/inline/plugin.ts interpolateParam
interpolateParam(param) == <<"${">> \o param \o <<"}">>

\* String.prototype.trim, after every run of white space became one " "
Trim(s) ==
    LET a == IF Len(s) > 0 /\ s[1] = " " THEN Tail(s) ELSE s
    IN  IF Len(a) > 0 /\ a[Len(a)] = " " THEN SubSeq(a, 1, Len(a) - 1) ELSE a

\* ------------------------------------------------------------------------
\* Translation trees
\* ------------------------------------------------------------------------

\* an entry of a tree: property k holds the text v (a leaf) or the tree sub
Leaf(k, v) == [k |-> k, leaf |-> TRUE, v |-> v, sub |-> <<>>]
Node(k, sub) == [k |-> k, leaf |-> FALSE, v |-> <<>>, sub |-> sub]

HasKey(tree, k) == \E i \in 1..Len(tree) : tree[i].k = k
KeyIndex(tree, k) == CHOOSE i \in 1..Len(tree) : tree[i].k = k

\* The values the reduce of getValue passes along: a tree (t = "obj"), a
\* string (t = "str"), null (t = "null") or undefined (t = "undef").
ObjVal(tree) == [t |-> "obj", v |-> <<>>, sub |-> tree]
StrVal(text) == [t |-> "str", v |-> text, sub |-> <<>>]
NullVal == [t |-> "null", v |-> <<>>, sub |-> <<>>]
UndefVal == [t |-> "undef", v |-> <<>>, sub |-> <<>>]

\* the lexemes that are one decimal digit, with their value
Digits == {"0", "1", "2"}
DigitValue(d) == CASE d = "0" -> 0 [] d = "1" -> 1 [] OTHER -> 2

\* JavaScript's acc[cur] for the values of the reduce.  An object gives its
\* own property; a string gives the character at an index that is in range
\* (strings have indexed properties); everything else is undefined.  The
\* properties objects and strings inherit (constructor, length, ...) are not
\* names of the modelled keys.
Prop(acc, cur) ==
    CASE acc.t = "obj" ->
            IF HasKey(acc.sub, cur)
            THEN LET e == acc.sub[KeyIndex(acc.sub, cur)]
                 IN  IF e.leaf THEN StrVal(e.v) ELSE ObjVal(e.sub)
            ELSE UndefVal
      [] acc.t = "str" ->
            IF Len(cur) = 1 /\ cur[1] \in Digits /\ DigitValue(cur[1]) < Len(acc.v)
            THEN StrVal(<<acc.v[DigitValue(cur[1]) + 1]>>)
            ELSE UndefVal
      [] OTHER -> UndefVal

\* JavaScript truthiness of a value of the reduce
Truthy(x) == x.t = "obj" \/ (x.t = "str" /\ x.v # <<>>)

\* the callback of the reduce in getValue:
\*   (acc && acc[cur] != null) ? acc[cur] : null
ReduceStep(acc, cur) ==
    IF Truthy(acc) /\ Prop(acc, cur).t \notin {"null", "undef"}
    THEN Prop(acc, cur)
    ELSE NullVal

RECURSIVE Reduce(_, _)
\* Array.prototype.reduce of ReduceStep over the segments, from acc
Reduce(segs, acc) ==
    IF segs = <<>> THEN acc ELSE Reduce(Tail(segs), ReduceStep(acc, Head(segs)))

\* ------------------------------------------------------------------------
\* Arguments and interpolation parameters
\* ------------------------------------------------------------------------

RECURSIVE ParamsFrom(_, _, _, _, _)
\* the pieces of args between the commas that are outside '...' and "..."
\* strings and outside {...}; q is the open quote ("" outside a string)
ParamsFrom(args, i, q, depth, cur) ==
    IF i > Len(args) THEN <<cur>>
    ELSE LET c == args[i] IN
         IF q # "" THEN ParamsFrom(args, i + 1, IF c = q THEN "" ELSE q, depth, Append(cur, c))
         ELSE IF c \in {"'", "DQUOTE"} THEN ParamsFrom(args, i + 1, c, depth, Append(cur, c))
         ELSE IF c = "{" THEN ParamsFrom(args, i + 1, q, depth + 1, Append(cur, c))
         ELSE IF c = "}" THEN ParamsFrom(args, i + 1, q, IF depth > 0 THEN depth - 1 ELSE 0, Append(cur, c))
         ELSE IF c = "," /\ depth = 0 THEN <<cur>> \o ParamsFrom(args, i + 1, q, depth, <<>>)
         ELSE ParamsFrom(args, i + 1, q, depth, Append(cur, c))

\* tools/inline/plugin.ts getParams: split by comma outside quotes and
\* brackets, drop the empty pieces, trim each piece
getParams(args) ==
    LET pieces == ParamsFrom(args, 1, "", 0, <<>>)
        NonEmpty(x) == x # <<>>
        kept == SelectSeq(pieces, NonEmpty)
    IN  [i \in 1..Len(kept) |-> Trim(kept[i])]

\* params[i] of the code, counting from 0; <<>> when there is none (undefined)
ParamAt(params, i) == IF i + 1 <= Len(params) THEN params[i + 1] ELSE <<>>

\* the end of the placeholder {{ name }} that starts at i, 0 when value holds
\* none there: the pattern {{\s?([^{}\s]*)\s?}}
PlaceholderEnd(value, i) ==
    LET a == IF i + 1 <= Len(value) /\ value[i + 1] = " " THEN i + 2 ELSE i + 1
        IsName(c) == c \notin {" ", "{", "}", "{{", "}}"}
        n == IF a <= Len(value) /\ IsName(value[a]) THEN a + 1 ELSE a
        b == IF n <= Len(value) /\ value[n] = " " THEN n + 1 ELSE n
    IN  IF value[i] = "{{" /\ b <= Len(value) /\ value[b] = "}}" THEN b ELSE 0

\* the name inside the placeholder that starts at i and ends at e
PlaceholderName(value, i, e) ==
    SelectSeq(SubSeq(value, i + 1, e - 1), LAMBDA c : c # " ")

RECURSIVE ReplacePlaceholders(_, _, _, _)
\* value.replace(/{{\s?([^{}\s]*)\s?}}/g, ...) of handleParams for one
\* parameter: the placeholders named name become the interpolation of expr
ReplacePlaceholders(value, i, name, expr) ==
    IF i > Len(value) THEN <<>>
    ELSE LET e == PlaceholderEnd(value, i) IN
         IF e = 0 THEN <<value[i]>> \o ReplacePlaceholders(value, i + 1, name, expr)
         ELSE (IF PlaceholderName(value, i, e) = name
               THEN interpolateParam(expr)
               ELSE SubSeq(value, i, e))
              \o ReplacePlaceholders(value, e + 1, name, expr)

RECURSIVE HandleEach(_, _)
\* the loop of handleParams over the parameters of the object literal
HandleEach(value, params) ==
    IF params = <<>> THEN value
    ELSE LET raw == Split(Head(params), ":")
             parts == [i \in 1..Len(raw) |-> Trim(raw[i])]
         IN  HandleEach(IF Len(parts) = 2
                        THEN ReplacePlaceholders(value, 1, parts[1], parts[2])
                        ELSE value,
                        Tail(params))

\* args.replace(/(^({))|(})$/g, ''): the brackets of the object literal
TrimBrackets(args) ==
    LET a == IF Len(args) > 0 /\ args[1] = "{" THEN Tail(args) ELSE args
    IN  IF Len(a) > 0 /\ a[Len(a)] = "}" THEN SubSeq(a, 1, Len(a) - 1) ELSE a

\* tools/inline/plugin.ts handleParams
handleParams(value, args) == quoteValue(HandleEach(value, getParams(TrimBrackets(args))))

\* A result of getValue: a text, or no value (undefined)
Found(text) == [ok |-> TRUE, v |-> text]
NoValue == [ok |-> FALSE, v |-> <<>>]

\* tools/inline/plugin.ts getValue; data is the locale's tree as a value of
\* the reduce (UndefVal when the dataset has no tree for the locale)
getValue(key, data, args, keySeparator) ==
    LET value == Reduce(Split(key, keySeparator), data)
    IN  IF value.t = "str"
        THEN Found(IF args # <<>> THEN handleParams(value.v, args) ELSE quoteValue(value.v))
        ELSE NoValue

\* tools/inline/plugin.ts getKey
getKey(param, keyValueSeparator) == Split(trimQuotes(param), keyValueSeparator)[1]

\* tools/inline/plugin.ts multilingual: the supported locale that params[3]
\* names, <<>> (undefined) when it names none
multilingual(param, supportedLangs) ==
    IF param = <<>> THEN <<>>
    ELSE IF \E i \in 1..Len(supportedLangs) : <<supportedLangs[i]>> = trimQuotes(param)
    THEN trimQuotes(param)
    ELSE <<>>

\* ------------------------------------------------------------------------
\* The inlining pipeline (tools/inline/plugin.ts)
\* ------------------------------------------------------------------------

\* tools/inline/constants: the name of the global locale variable
globalLang == <<"$lang">>

\* the lexeme that opens a call of the translation function
TranslateOpen == "$translate("

\* the end of the call that opens at i: its first ")" after i, 0 when the
\* text ends before the call is closed
CallEnd(code, i) ==
    IF \E j \in (i + 1)..Len(code) : code[j] = ")"
    THEN CHOOSE j \in (i + 1)..Len(code) :
            code[j] = ")" /\ \A m \in (i + 1)..(j - 1) : code[m] # ")"
    ELSE 0

RECURSIVE ScanFrom(_, _)
\* the spans <<first, last>> of the calls of code from position i on, left to
\* right and not overlapping
ScanFrom(code, i) ==
    IF i > Len(code) THEN <<>>
    ELSE IF code[i] = TranslateOpen /\ CallEnd(code, i) # 0
    THEN <<(<<i, CallEnd(code, i)>>)>> \o ScanFrom(code, CallEnd(code, i) + 1)
    ELSE ScanFrom(code, i + 1)

\* code.match(translateFnMatch): the texts of the calls of code
MatchCalls(code) ==
    LET spans == ScanFrom(code, 1)
    IN  [n \in 1..Len(spans) |-> SubSeq(code, spans[n][1], spans[n][2])]

\* originalFn.match(translateFnSignatureMatch)?.[0]: the argument list
Signature(originalFn) == SubSeq(originalFn, 2, Len(originalFn) - 1)

\* the lexemes that are not word characters
Punctuation == {" ", ",", ":", "'", "DQUOTE", "BACKTICK", "{", "}", "{{", "}}", "(", ")", "$", "&", ".", "@@", ";", "=", "?"}

\* params[1].match(/(\w+(?=:|\s+:))/g) is not null: some word is followed by
\* a colon
HasParamNames(param) ==
    \E i \in 1..Len(param) :
        /\ param[i] \notin Punctuation
        /\ \/ (i + 1 <= Len(param) /\ param[i + 1] = ":")
           \/ (i + 2 <= Len(param) /\ param[i + 1] = " " /\ param[i + 2] = ":")

\* values.get(lang) inside a template literal: the text undefined when the
\* map has no entry for lang
ValueText(values, lang) ==
    IF lang \in DOMAIN values THEN values[lang] ELSE <<"undefined">>

\* buildLine without the filter of the default locale: the default locale
\* gets a term of its own
buildLineNoFilter(values, supportedLangs, defaultLang) ==
    LET term(lang) == globalLang \o <<" === ">> \o quoteValue(<<lang>>) \o <<" && ">>
                      \o ValueText(values, lang) \o <<" || ">>
    IN  Concat([i \in 1..Len(supportedLangs) |-> term(supportedLangs[i])])
        \o ValueText(values, defaultLang)

\* tools/inline/plugin.ts buildLine
buildLine(values, supportedLangs, defaultLang) ==
    LET others == SelectSeq(supportedLangs, LAMBDA x : x # defaultLang)
        term(lang) == globalLang \o <<" === ">> \o quoteValue(<<lang>>) \o <<" && ">>
                      \o ValueText(values, lang) \o <<" || ">>
    IN  Concat([i \in 1..Len(others) |-> term(others[i])]) \o ValueText(values, defaultLang)

RECURSIVE Expand(_, _, _, _)
\* GetSubstitution of String.prototype.replace for a string pattern: in the
\* replacement, $$ is a dollar sign, $& the matched text, $` the text before
\* the match and $' the text after it
Expand(repl, matched, before, after) ==
    IF repl = <<>> THEN <<>>
    ELSE IF Head(repl) = "$" /\ Len(repl) >= 2 /\ repl[2] \in {"$", "&", "BACKTICK", "'"}
    THEN (CASE repl[2] = "$" -> <<"$">>
            [] repl[2] = "&" -> matched
            [] repl[2] = "BACKTICK" -> before
            [] OTHER -> after)
         \o Expand(Tail(Tail(repl)), matched, before, after)
    ELSE <<Head(repl)>> \o Expand(Tail(repl), matched, before, after)

\* code.replace(originalFn, line) with a string pattern: the first occurrence
\* of the pattern gives way to the expanded replacement
JsReplace(code, pattern, repl) ==
    LET i == IndexOf(code, pattern)
        before == SubSeq(code, 1, i - 1)
        after == SubSeq(code, i + Len(pattern), Len(code))
    IN  IF i = 0 THEN code
        ELSE before \o Expand(repl, pattern, before, after) \o after

\* translation[lang]: the tree of the locale, undefined when there is none
TreeOf(translation, lang) ==
    IF lang \in DOMAIN translation THEN ObjVal(translation[lang]) ELSE UndefVal

\* a line of the log: a missing value; skip tells that the call was skipped
LogLine(lang, key, skip) == [lang |-> lang, key |-> key, skip |-> skip]

\* One turn of the loop of inline() over the call originalFn: what becomes of
\* the call (kind), the active locales, the values resolved, the line built
\* and the lines logged
InlineCall(originalFn, translation, opts) ==
    LET args == Signature(originalFn)
        params == getParams(args)
        p0 == ParamAt(params, 0)
        p1 == ParamAt(params, 1)
        optionalLang == multilingual(ParamAt(params, 3), opts.supportedLangs)
        supportedLangs == IF optionalLang = <<>> THEN opts.supportedLangs ELSE optionalLang
        defaultLang == IF optionalLang = <<>> THEN opts.defaultLang ELSE optionalLang[1]
        key == getKey(p0, opts.keyValueSeparator)
        val(lang) == getValue(key, TreeOf(translation, lang), p1, opts.keySeparator)
        others == SelectSeq(supportedLangs, LAMBDA x : x # defaultLang)
        have == {defaultLang} \cup { l \in Range(others) : val(l).ok }
        values == [l \in have |-> val(l).v]
        misses == SelectSeq(others, LAMBDA x : ~val(x).ok)
        base == [fn |-> originalFn, kind |-> "noargs", key |-> <<>>, langs |-> <<>>,
                 def |-> "", have |-> {}, values |-> <<>>, line |-> <<>>, logs |-> <<>>]
    IN  IF args = <<>> THEN base
        ELSE IF p1 # <<>> /\ ~HasParamNames(p1) THEN [base EXCEPT !.kind = "dynamic"]
        ELSE IF ~val(defaultLang).ok
        THEN [base EXCEPT !.kind = "missing", !.key = key, !.langs = supportedLangs,
                          !.def = defaultLang,
                          !.logs = <<LogLine(defaultLang, key, TRUE)>>]
        ELSE [base EXCEPT !.kind = "inlined", !.key = key, !.langs = supportedLangs,
                          !.def = defaultLang, !.have = have, !.values = values,
                          !.line = buildLine(values, supportedLangs, defaultLang),
                          !.logs = [i \in 1..Len(misses) |-> LogLine(misses[i], key, FALSE)]]

\* ------------------------------------------------------------------------
\* The translation store (tools/core/merge, tools/core/format)
\* ------------------------------------------------------------------------

\* the order of the lexemes that occur in keys
Alphabet == <<"0", "1", "2", "a", "b", "h", "m", "p", "t">>
Rank(c) == IF \E i \in 1..Len(Alphabet) : Alphabet[i] = c
           THEN CHOOSE i \in 1..Len(Alphabet) : Alphabet[i] = c
           ELSE Len(Alphabet) + 1

\* text x comes before text y, or is y, in lexicographic order
TextLeq(x, y) ==
    \/ \E i \in 1..Len(x) :
          /\ i <= Len(y)
          /\ \A j \in 1..(i - 1) : x[j] = y[j]
          /\ Rank(x[i]) < Rank(y[i])
    \/ /\ Len(x) <= Len(y)
       /\ \A j \in 1..Len(x) : x[j] = y[j]

RECURSIVE deepSet(_, _, _)
\* deepSet(tree, pathSegments, value): walks or creates the intermediate
\* nodes and writes the leaf; a leaf in the way gives way to a new node
deepSet(tree, path, value) ==
    LET k == Head(path)
        rest == Tail(path)
        i == KeyIndex(tree, k)
    IN  IF rest = <<>>
        THEN IF HasKey(tree, k) THEN [tree EXCEPT ![i] = Leaf(k, value)]
             ELSE Append(tree, Leaf(k, value))
        ELSE IF HasKey(tree, k)
             THEN [tree EXCEPT ![i] = Node(k, deepSet(IF tree[i].leaf THEN <<>> ELSE tree[i].sub,
                                                      rest, value))]
             ELSE Append(tree, Node(k, deepSet(<<>>, rest, value)))

RECURSIVE deepMerge(_, _)
\* deepMerge(target, source): two nodes at a key merge recursively, every
\* other value of source overwrites the value of target
deepMerge(target, source) ==
    IF source = <<>> THEN target
    ELSE LET e == Head(source)
             i == KeyIndex(target, e.k)
             merged ==
                IF HasKey(target, e.k)
                THEN IF ~e.leaf /\ ~target[i].leaf
                     THEN [target EXCEPT ![i] = Node(e.k, deepMerge(target[i].sub, e.sub))]
                     ELSE [target EXCEPT ![i] = e]
                ELSE Append(target, e)
         IN  deepMerge(merged, Tail(source))

RECURSIVE Insert(_, _)
\* entry e put into the sorted tree at its place
Insert(e, tree) ==
    IF tree = <<>> THEN <<e>>
    ELSE IF TextLeq(e.k, Head(tree).k) THEN <<e>> \o tree
    ELSE <<Head(tree)>> \o Insert(e, Tail(tree))

RECURSIVE sortTarget(_)
\* sortTarget(tree): the keys in lexicographic order at every level
sortTarget(tree) ==
    IF tree = <<>> THEN <<>>
    ELSE LET e == Head(tree)
         IN  Insert(IF e.leaf THEN e ELSE Node(e.k, sortTarget(e.sub)),
                    sortTarget(Tail(tree)))

RECURSIVE IsSorted(_)
\* the keys of the tree are in lexicographic order at every level
IsSorted(tree) ==
    /\ \A i \in 1..(Len(tree) - 1) : TextLeq(tree[i].k, tree[i + 1].k)
    /\ \A i \in 1..Len(tree) : tree[i].leaf \/ IsSorted(tree[i].sub)

Min(S) == CHOOSE x \in S : \A y \in S : x <= y

RECURSIVE minDepth(_)
\* minDepth(tree): the depth of the shallowest leaf, counted from 1; 0 for a
\* tree without a property
minDepth(tree) ==
    IF tree = <<>> THEN 0
    ELSE 1 + Min({ IF tree[i].leaf THEN 0 ELSE minDepth(tree[i].sub) : i \in 1..Len(tree) })

RECURSIVE Leaves(_)
\* the leaves of a tree: each with its path from the root and its text
Leaves(tree) ==
    UNION { IF tree[i].leaf
            THEN { [path |-> <<tree[i].k>>, v |-> tree[i].v] }
            ELSE { [path |-> <<tree[i].k>> \o l.path, v |-> l.v] : l \in Leaves(tree[i].sub) }
          : i \in 1..Len(tree) }

\* tools/core/parser parseJson of the extraction: { ...target, ...JSON.parse(source) };
\* the text of a file is held as the tree it encodes
parseJson(target, source) ==
    LET Over(t, e) == IF HasKey(t, e.k) THEN [t EXCEPT ![KeyIndex(t, e.k)] = e]
                      ELSE Append(t, e)
        RECURSIVE Spread(_, _)
        Spread(t, src) == IF src = <<>> THEN t ELSE Spread(Over(t, Head(src)), Tail(src))
    IN  Spread(target, source)

\* ------------------------------------------------------------------------
\* The extraction pipeline (tools/extract/index.ts)
\* ------------------------------------------------------------------------

\* an argument of a parsed call expression
Arg(type, value) == [type |-> type, value |-> value]

\* args[i] of a parsed call, counting from 0; type "none" when there is none
ArgAt(args, i) == IF i + 1 <= Len(args) THEN args[i + 1] ELSE Arg("none", <<>>)

\* /\${.*}/.test(value)
HasPlaceholder(value) ==
    \E i \in 1..Len(value) : \E j \in (i + 1)..Len(value) : value[i] = "${" /\ value[j] = "}"

\* the branch of the loop of parseSourceFile a parsed call takes: "keys"
\* (its key is pushed), "dynamic" (it is skipped and counted) or "none"
\* (args?.[0]?.value is falsy: nothing happens)
ClassifyExpr(args) ==
    LET a0 == ArgAt(args, 0)
        Dyn(i) == ArgAt(args, i).type \in {"Identifier", "CallExpression"}
    IN  IF a0.value = <<>> THEN "none"
        ELSE IF a0.type = "Identifier" THEN "dynamic"
        ELSE IF a0.type = "Literal" /\ a0.value # <<"k", "e", "y">> /\ HasPlaceholder(a0.value)
        THEN "dynamic"
        ELSE IF Dyn(1) \/ Dyn(2) \/ Dyn(3) THEN "dynamic"
        ELSE "keys"

\* the keys parseSourceFile returns for the calls of a file
KeysOf(exprs) ==
    LET kept == SelectSeq(exprs, LAMBDA e : ClassifyExpr(e) = "keys")
    IN  [i \in 1..Len(kept) |-> ArgAt(kept[i], 0).value]

\* how many calls of a file are of class c
CountClass(exprs, c) == Cardinality({ i \in 1..Len(exprs) : ClassifyExpr(exprs[i]) = c })

\* [key, defaultValue] = key.split(keyValueSeparator), then defaultValue || ''
SeedOf(keyArg, keyValueSeparator) ==
    LET parts == Split(keyArg, keyValueSeparator)
    IN  [key |-> parts[1], value |-> IF Len(parts) >= 2 THEN parts[2] ELSE <<>>]

RECURSIVE SeedAll(_, _, _)
\* the deep-set loop for one locale: every seed written into the tree
SeedAll(tree, seedSeq, keySeparator) ==
    IF seedSeq = <<>> THEN tree
    ELSE SeedAll(deepSet(tree, Split(Head(seedSeq).key, keySeparator), Head(seedSeq).value),
                 Tail(seedSeq), keySeparator)

\* a file of an asset directory; valid tells that its text is JSON, and tree
\* is the tree that text encodes
AssetFile(name, ext, valid, tree) == [name |-> name, ext |-> ext, valid |-> valid, tree |-> tree]

\* an asset directory: whether it exists, and its files in readdir order
AssetDir(exists, files) == [exists |-> exists, files |-> files]

RECURSIVE ParseAll(_, _)
\* the loop of readAssets over the texts of the files (all files are JSON)
ParseAll(data, files) ==
    IF files = <<>> THEN data ELSE ParseAll(parseJson(data, Head(files).tree), Tail(files))

\* readAssets for one locale throws: the first file is .json and the text of
\* some file is not JSON
ReadAssetsThrows(dir) ==
    /\ dir.exists /\ dir.files # <<>>
    /\ dir.files[1].ext = ".json"
    /\ \E i \in 1..Len(dir.files) : ~dir.files[i].valid

\* readAssets for one locale: the tree of the locale after it
ReadAssetsTree(tree, dir) ==
    IF ~dir.exists \/ dir.files = <<>> THEN tree
    ELSE LET data == IF dir.files[1].ext = ".json" THEN ParseAll(<<>>, dir.files) ELSE <<>>
         IN  sortTarget(deepMerge(tree, data))

\* writeAssets for one locale: the files written, in the order of the writes
FilesWritten(tree) ==
    IF minDepth(tree) > 1
    THEN [i \in 1..Len(tree) |-> AssetFile(tree[i].k, ".json", TRUE, <<tree[i]>>)]
    ELSE <<AssetFile(<<"app">>, ".json", TRUE, tree)>>

RECURSIVE PutFiles(_, _)
\* the files of a directory after the files new were written into it
PutFiles(files, new) ==
    IF new = <<>> THEN files
    ELSE LET f == Head(new)
             Same(i) == files[i].name = f.name /\ files[i].ext = f.ext
         IN  PutFiles(IF \E i \in 1..Len(files) : Same(i)
                      THEN [files EXCEPT ![CHOOSE i \in 1..Len(files) : Same(i)] = f]
                      ELSE Append(files, f),
                      Tail(new))

\* ------------------------------------------------------------------------
\* Inputs
\* ------------------------------------------------------------------------

\* the largest number of source files of an extraction run
MaxFiles == 2

\* the options of the plugin: the supported locales in their order and the
\* default locale; the separators are the defaults of the code
Options == {
    [supportedLangs |-> <<"it-IT", "en-US">>, defaultLang |-> "en-US",
     keySeparator |-> ".", keyValueSeparator |-> "@@"],
    [supportedLangs |-> <<"it-IT", "en-US", "de-DE">>, defaultLang |-> "en-US",
     keySeparator |-> ".", keyValueSeparator |-> "@@"] }

AllLangs == {"it-IT", "en-US", "de-DE"}

\* the translation datasets of the inlining runs
Datasets == {
    \* every locale has every value
    [l \in AllLangs |->
        <<Leaf(<<"h">>, <<"H", l>>), Node(<<"p">>, <<Leaf(<<"t">>, <<"T", l>>)>>),
          Leaf(<<"g">>, <<"G", " ", "{{", "n", "}}", l>>)>>],
    \* it-IT has no value for h, en-US has none for p.t; the value of w, which
    \* en-US alone has, holds the placeholder n twice, m and z once
    [l \in AllLangs |->
        CASE l = "it-IT" -> <<Node(<<"p">>, <<Leaf(<<"t">>, <<"T", l>>)>>)>>
          [] l = "en-US" -> <<Leaf(<<"h">>, <<"H", l>>), Leaf(<<"g">>, <<"{{", " ", "n", " ", "}}">>),
                              Leaf(<<"w">>, <<"{{", "n", "}}", "{{", "m", "}}", "{{", "n", "}}",
                                              "{{", "z", "}}">>)>>
          [] OTHER -> <<Leaf(<<"h">>, <<"H", l>>), Node(<<"p">>, <<Leaf(<<"t">>, <<"T", l>>)>>)>>],
    \* the value of h ends with a dollar sign in en-US, holds $& in it-IT and
    \* $$ in de-DE; the value of p.t is the empty text in de-DE
    [l \in AllLangs |->
        CASE l = "en-US" -> <<Leaf(<<"h">>, <<"5", "$">>), Node(<<"p">>, <<Leaf(<<"t">>, <<"T">>)>>)>>
          [] l = "it-IT" -> <<Leaf(<<"h">>, <<"$", "&", "5">>), Node(<<"p">>, <<Leaf(<<"t">>, <<"$", "$">>)>>)>>
          [] OTHER -> <<Leaf(<<"h">>, <<"$", "$", "5">>), Node(<<"p">>, <<Leaf(<<"t">>, <<>>)>>)>>],
    \* en-US has no leaf at h (a node is there) and no other value
    [l \in AllLangs |->
        CASE l = "en-US" -> <<Node(<<"h">>, <<Leaf(<<"a">>, <<"A">>)>>)>>
          [] OTHER -> <<Leaf(<<"h">>, <<"H", l>>), Node(<<"p">>, <<Leaf(<<"t">>, <<"T", l>>)>>)>>] }

\* a call of the translation function with the arguments args
CallText(args) == <<TranslateOpen>> \o args \o <<")">>

\* the calls of the code blocks
CallSet == {
    CallText(<<"'", "h", "'">>),
    CallText(<<"'", "p", ".", "t", "'">>),
    CallText(<<"'", "m", "'">>),
    CallText(<<"'", "h", "@@", "D", "'">>),
    CallText(<<"'", "h", ".", "0", "'">>),
    CallText(<<"'", "h", "'", ",", " ", "obj">>),
    CallText(<<"'", "g", "'", ",", " ", "{", " ", "n", ":", " ", "x", " ", "}">>),
    CallText(<<"'", "h", "'", ",", " ", "{", " ", "n", ":", " ", "x", " ", "}", ",", " ",
               "undefined", ",", " ", "'", "it-IT", "'">>),
    CallText(<<"'", "h", "'", ",", " ", "{", " ", "n", ":", " ", "x", " ", "}", ",", " ",
               "undefined", ",", " ", "'", "fr-FR", "'">>),
    \* two properties; a conditional expression as the value of a property
    CallText(<<"'", "w", "'", ",", "{", "n", ":", "x", ",", "m", ":", "y", "}">>),
    CallText(<<"'", "w", "'", ",", "{", "n", ":", "c", "?", "a", ":", "b", "}">>),
    \* argument 3 is not a literal: the text of a supported locale without quotes
    CallText(<<"'", "h", "'", ",", "{", "n", ":", "x", "}", ",", "undefined", ",", "it-IT">>) }

\* the code block that holds the calls cs, each followed by a semicolon
CodeOf(cs) == <<"x", "=">> \o Concat([i \in 1..Len(cs) |-> cs[i] \o <<";">>])

CodeBlocks == { CodeOf(cs) : cs \in UNION { [1..n -> CallSet] : n \in 0..MaxCalls } }

\* the locales of the extraction runs
ExtractLangs == <<"it-IT", "en-US">>

\* the source files: whether the file can be read, and its parsed calls
SourceFile(readable, exprs) == [readable |-> readable, exprs |-> exprs]

SourceFileSet == {
    SourceFile(TRUE, << <<Arg("Literal", <<"h", "@@", "H", "i">>)>> >>),
    SourceFile(TRUE, << <<Arg("Literal", <<"p", ".", "t">>)>>, <<Arg("Identifier", <<"k">>)>> >>),
    SourceFile(TRUE, << <<Arg("Literal", <<"h", "@@", "A", "@@", "B">>)>> >>),
    SourceFile(FALSE, <<>>),
    SourceFile(TRUE, << <<Arg("CallExpression", <<"f", "(", ")">>)>>,
                        <<Arg("Literal", <<"b">>), Arg("Identifier", <<"o">>)>> >>),
    SourceFile(TRUE, << <<Arg("Literal", <<"m", "${", "x", "}">>)>>, <<Arg("Literal", <<>>)>>,
                        <<>> >>),
    SourceFile(TRUE, << <<Arg("Literal", <<"a", "@@", "X">>), Arg("ObjectExpression", <<"{", "}">>)>> >>) }

SourceFileLists == UNION { [1..n -> SourceFileSet] : n \in 1..MaxFiles }

\* the asset directories a locale can have before a run
PersistedH == <<Leaf(<<"h">>, <<"C", "i", "a", "o">>)>>
PersistedP == <<Node(<<"p">>, <<Leaf(<<"t">>, <<"T", "i">>), Leaf(<<"a">>, <<"A", "i">>)>>)>>

AssetDirs == {
    AssetDir(FALSE, <<>>),
    AssetDir(TRUE, <<>>),
    AssetDir(TRUE, <<AssetFile(<<"app">>, ".json", TRUE, PersistedH)>>),
    AssetDir(TRUE, <<AssetFile(<<".DS_Store">>, "", FALSE, <<>>),
                     AssetFile(<<"app">>, ".json", TRUE, PersistedH)>>),
    AssetDir(TRUE, <<AssetFile(<<"app">>, ".json", TRUE, PersistedH),
                     AssetFile(<<"notes">>, ".txt", FALSE, <<>>)>>),
    AssetDir(TRUE, <<AssetFile(<<"p">>, ".json", TRUE, PersistedP)>>) }

Disks == { [l \in Range(ExtractLangs) |-> IF l = "it-IT" THEN d ELSE e] :
              d \in AssetDirs, e \in {AssetDir(FALSE, <<>>),
                                      AssetDir(TRUE, <<AssetFile(<<"app">>, ".json", TRUE, PersistedH)>>)} }

\* the keys and the trees of the lookups
LookupKeys == { <<"a">>, <<"b", ".", "a">>, <<"b">>, <<"b", ".", "b">>, <<"m">>,
                <<"a", ".", "b">>, <<"a", ".", "0">>, <<"a", ".", "2">>, <<"b", ".", "a", ".", "1">>,
                <<>> }

LookupTrees == {
    ObjVal(<<Leaf(<<"a">>, <<"x", "y">>), Node(<<"b">>, <<Leaf(<<"a">>, <<"a", "a">>)>>)>>),
    ObjVal(<<Leaf(<<"a">>, <<>>)>>),
    ObjVal(<<>>),
    UndefVal }

\* ------------------------------------------------------------------------
\* State
\* ------------------------------------------------------------------------

VARIABLES
    tool,         \* the tool that runs: "inline", "extract" or "lookup"
    \* inline(code, translation, opts)
    input,        \* the code block handed to inline()
    translation,  \* the translation dataset: locale -> tree
    opts,         \* the resolved options
    code,         \* the local variable code
    matches,      \* code.match(translateFnMatch)
    idx,          \* the position of the for loop in matches
    logs,         \* the lines logged so far
    hist,         \* what each turn of the loop did (history)
    ipc,          \* "off", "start", "loop", "done" (code returned), "null"
    \* qwikSpeakExtract(options)
    sourceFiles,  \* the source files enumerated by readSourceFiles
    disk,         \* the asset directories: locale -> directory
    disk0,        \* the asset directories before the run (history)
    task,         \* the promise of parseSourceFile per file
    sources,      \* the keys each parseSourceFile returned
    stats,        \* the counters keys and dynamic
    seeds,        \* the key and default of every deepSet of the run (history)
    store,        \* the local variable translation: locale -> tree
    loaded,       \* the locales whose callback of readAssets has returned
    wrote,        \* the files written by writeAssets, in order (history)
    settledFiles, \* the source files in the order their reads settled (history)
    settledLangs, \* the locales in the order their asset reads settled (history)
    xpc,          \* "off", "idle", "parsing", "reading", "done", "failedSource", "failedAssets"
    \* getValue(key, data, undefined, '.')
    lkKey, lkData, lkResult, lpc

ivars == <<input, translation, opts, code, matches, idx, logs, hist, ipc>>
xvars == <<sourceFiles, disk, disk0, task, sources, stats, seeds, store, loaded, wrote,
           settledFiles, settledLangs, xpc>>
lvars == <<lkKey, lkData, lkResult, lpc>>
vars == <<tool, ivars, xvars, lvars>>

InlineOff ==
    /\ input = <<>> /\ translation = [l \in AllLangs |-> <<>>]
    /\ opts \in { o \in Options : Len(o.supportedLangs) = 2 }
    /\ code = <<>> /\ matches = <<>> /\ idx = 0 /\ logs = <<>> /\ hist = <<>> /\ ipc = "off"

ExtractOff ==
    /\ sourceFiles = <<>> /\ disk = [l \in Range(ExtractLangs) |-> AssetDir(FALSE, <<>>)]
    /\ disk0 = disk /\ task = <<>> /\ sources = <<>> /\ stats = [keys |-> 0, dynamic |-> 0]
    /\ seeds = <<>> /\ store = [l \in Range(ExtractLangs) |-> <<>>]
    /\ loaded = {} /\ wrote = <<>> /\ settledFiles = <<>> /\ settledLangs = <<>> /\ xpc = "off"

LookupOff == lkKey = <<>> /\ lkData = UndefVal /\ lkResult = NoValue /\ lpc = "off"

InitInline ==
    /\ tool = "inline"
    /\ input \in CodeBlocks /\ translation \in Datasets /\ opts \in Options
    /\ code = input /\ matches = <<>> /\ idx = 0 /\ logs = <<>> /\ hist = <<>> /\ ipc = "start"
    /\ ExtractOff /\ LookupOff

\* qwikSpeakExtract up to the first await: translation holds an empty tree
\* for every locale, no statistics
InitExtract ==
    /\ tool = "extract"
    /\ sourceFiles \in SourceFileLists /\ disk \in Disks /\ disk0 = disk
    /\ task = <<>> /\ sources = <<>> /\ stats = [keys |-> 0, dynamic |-> 0]
    /\ seeds = <<>> /\ store = [l \in Range(ExtractLangs) |-> <<>>]
    /\ loaded = {} /\ wrote = <<>> /\ settledFiles = <<>> /\ settledLangs = <<>> /\ xpc = "idle"
    /\ InlineOff /\ LookupOff

InitLookup ==
    /\ tool = "lookup"
    /\ lkKey \in LookupKeys /\ lkData \in LookupTrees /\ lkResult = NoValue /\ lpc = "ready"
    /\ InlineOff /\ ExtractOff

Init == InitInline \/ InitExtract \/ InitLookup

\* ------------------------------------------------------------------------
\* inline()
\* ------------------------------------------------------------------------

\* const matches = code.match(translateFnMatch); if (!matches) return null
InlineStart ==
    /\ ipc = "start"
    /\ matches' = MatchCalls(code)
    /\ idx' = 1
    /\ ipc' = IF MatchCalls(code) = <<>> THEN "null" ELSE "loop"
    /\ UNCHANGED <<tool, input, translation, opts, code, logs, hist, xvars, lvars>>

\* one turn of: for (const originalFn of matches) { ... }, and the return
\* after the last turn
InlineStep ==
    /\ ipc = "loop"
    /\ LET r == InlineCall(matches[idx], translation, opts)
           after == IF r.kind = "inlined" THEN JsReplace(code, r.fn, r.line) ELSE code
       IN  /\ code' = after
           /\ logs' = logs \o r.logs
           /\ hist' = Append(hist, [fn |-> r.fn, kind |-> r.kind, key |-> r.key,
                                    langs |-> r.langs, def |-> r.def, have |-> r.have,
                                    values |-> r.values, line |-> r.line, logs |-> r.logs,
                                    before |-> code, after |-> after])
    /\ idx' = idx + 1
    /\ ipc' = IF idx = Len(matches) THEN "done" ELSE "loop"
    /\ UNCHANGED <<tool, input, translation, opts, matches, xvars, lvars>>

\* ------------------------------------------------------------------------
\* qwikSpeakExtract()
\* ------------------------------------------------------------------------

\* await readSourceFiles(baseSources); const tasks = sourceFiles.map(...):
\* every parseSourceFile runs up to its await of readFile
ExtractStart ==
    /\ xpc = "idle"
    /\ task' = [f \in 1..Len(sourceFiles) |-> "pending"]
    /\ sources' = [f \in 1..Len(sourceFiles) |-> <<>>]
    /\ xpc' = "parsing"
    /\ UNCHANGED <<tool, sourceFiles, disk, disk0, stats, seeds, store, loaded, wrote,
                   settledFiles, settledLangs, ivars, lvars>>

\* parseSourceFile with the counters read before the await of readFile (every
\* task starts with the counters at 0) and written after it: the increments
\* of the tasks that settled in between are lost
ParseSourceFileStaleStats(f) ==
    /\ xpc \in {"parsing", "failedSource"}
    /\ task[f] = "pending"
    /\ IF sourceFiles[f].readable
       THEN /\ task' = [task EXCEPT ![f] = "done"]
            /\ sources' = [sources EXCEPT ![f] = KeysOf(sourceFiles[f].exprs)]
            /\ stats' = [keys |-> CountClass(sourceFiles[f].exprs, "keys"),
                         dynamic |-> CountClass(sourceFiles[f].exprs, "dynamic")]
            /\ xpc' = xpc
       ELSE /\ task' = [task EXCEPT ![f] = "rejected"]
            /\ xpc' = "failedSource"
            /\ UNCHANGED <<sources, stats>>
    /\ settledFiles' = Append(settledFiles, f)
    /\ UNCHANGED <<tool, sourceFiles, disk, disk0, seeds, store, loaded, wrote, settledLangs,
                   ivars, lvars>>

\* the readFile of parseSourceFile(sourceFiles[f]) settles and the rest of
\* parseSourceFile runs; a failed read rejects the task, and with it
\* Promise.all(tasks) and qwikSpeakExtract
ParseSourceFile(f) ==
    /\ xpc \in {"parsing", "failedSource"}
    /\ task[f] = "pending"
    /\ IF sourceFiles[f].readable
       THEN /\ task' = [task EXCEPT ![f] = "done"]
            /\ sources' = [sources EXCEPT ![f] = KeysOf(sourceFiles[f].exprs)]
            /\ stats' = [keys |-> stats.keys + CountClass(sourceFiles[f].exprs, "keys"),
                         dynamic |-> stats.dynamic + CountClass(sourceFiles[f].exprs, "dynamic")]
            /\ xpc' = xpc
       ELSE /\ task' = [task EXCEPT ![f] = "rejected"]
            /\ xpc' = "failedSource"
            /\ UNCHANGED <<sources, stats>>
    /\ settledFiles' = Append(settledFiles, f)
    /\ UNCHANGED <<tool, sourceFiles, disk, disk0, seeds, store, loaded, wrote, settledLangs,
                   ivars, lvars>>

\* Promise.all(tasks) is fulfilled: the keys are concatenated in the order of
\* the files and deep-set for every locale; readAssets starts
Collect ==
    /\ xpc = "parsing"
    /\ \A f \in 1..Len(sourceFiles) : task[f] = "done"
    /\ LET keys == Concat(sources)
           sd == [i \in 1..Len(keys) |-> SeedOf(keys[i], "@@")]
       IN  /\ seeds' = sd
           /\ store' = [l \in Range(ExtractLangs) |-> SeedAll(store[l], sd, ".")]
    /\ xpc' = "reading"
    /\ UNCHANGED <<tool, sourceFiles, disk, disk0, task, sources, stats, loaded, wrote,
                   settledFiles, settledLangs, ivars, lvars>>

\* the callback of readAssets for the locale lang, when its reads settled.
\* Before its last await the callback reads the directory and the files only
\* (nothing is written before writeAssets) and keeps what it read in locals;
\* the shared object translation is read and written in the synchronous rest
\* after await Promise.all(tasks), which is this step.
ReadAssets(lang) ==
    /\ xpc \in {"reading", "failedAssets"}
    /\ lang \notin loaded
    /\ loaded' = loaded \cup {lang}
    /\ IF ReadAssetsThrows(disk[lang])
       THEN xpc' = "failedAssets" /\ store' = store
       ELSE xpc' = xpc /\ store' = [store EXCEPT ![lang] = ReadAssetsTree(store[lang], disk[lang])]
    /\ settledLangs' = Append(settledLangs, lang)
    /\ UNCHANGED <<tool, sourceFiles, disk, disk0, task, sources, stats, seeds, wrote,
                   settledFiles, ivars, lvars>>

RECURSIVE WrittenFrom(_, _)
\* the files writeAssets writes for the locales langs, each with its locale
WrittenFrom(langs, trees) ==
    IF langs = <<>> THEN <<>>
    ELSE LET fs == FilesWritten(trees[Head(langs)])
         IN  [i \in 1..Len(fs) |-> [lang |-> Head(langs), file |-> fs[i]]]
             \o WrittenFrom(Tail(langs), trees)

\* await readAssets() is fulfilled; await writeAssets(); the log of the counters
WriteAssets ==
    /\ xpc = "reading"
    /\ loaded = Range(ExtractLangs)
    /\ wrote' = WrittenFrom(ExtractLangs, store)
    /\ disk' = [l \in Range(ExtractLangs) |->
                  AssetDir(TRUE, PutFiles(disk[l].files, FilesWritten(store[l])))]
    /\ xpc' = "done"
    /\ UNCHANGED <<tool, sourceFiles, disk0, task, sources, stats, seeds, store, loaded,
                   settledFiles, settledLangs, ivars, lvars>>

\* ------------------------------------------------------------------------
\* getValue()
\* ------------------------------------------------------------------------

Lookup ==
    /\ lpc = "ready"
    /\ lkResult' = getValue(lkKey, lkData, <<>>, ".")
    /\ lpc' = "done"
    /\ UNCHANGED <<tool, lkKey, lkData, ivars, xvars>>

Next ==
    \/ InlineStart
    \/ InlineStep
    \/ ExtractStart
    \/ \E f \in 1..Len(sourceFiles) : ParseSourceFile(f)
    \/ Collect
    \/ \E lang \in Range(ExtractLangs) : ReadAssets(lang)
    \/ WriteAssets
    \/ Lookup

Spec == Init /\ [][Next]_vars

\* ------------------------------------------------------------------------
\* Properties
\* ------------------------------------------------------------------------

\* the text of a locale in a generated line: its resolved value, or the text
\* undefined when none was resolved
TextOf(values, lang) == IF lang \in DOMAIN values THEN values[lang] ELSE <<"undefined">>

RECURSIVE FallbackChain(_, _, _, _)
\* for each non-default locale of langs, in order, the text
\*   <globalLocaleVariable> === <q><locale><q> && <value> ||
FallbackChain(langs, def, values, q) ==
    IF langs = <<>> THEN <<>>
    ELSE (IF Head(langs) = def THEN <<>>
          ELSE globalLang \o <<" === ", q, Head(langs), q, " && ">>
               \o TextOf(values, Head(langs)) \o <<" || ">>)
         \o FallbackChain(Tail(langs), def, values, q)

\* the terms of the chain followed by the default locale's value
ExpectedLine(h, q) == FallbackChain(h.langs, h.def, h.values, q) \o TextOf(h.values, h.def)

Inlined == { i \in 1..Len(hist) : hist[i].kind = "inlined" }

RECURSIVE SpanwiseFrom(_, _)
\* text from position i on, the span of every matched and resolved call
\* replaced by the line generated for the call, all else as it is
SpanwiseFrom(text, i) ==
    IF i > Len(text) THEN <<>>
    ELSE IF text[i] = TranslateOpen /\ CallEnd(text, i) # 0
    THEN LET r == InlineCall(SubSeq(text, i, CallEnd(text, i)), translation, opts)
         IN  (IF r.kind = "inlined" THEN r.line ELSE r.fn)
             \o SpanwiseFrom(text, CallEnd(text, i) + 1)
    ELSE <<text[i]>> \o SpanwiseFrom(text, i + 1)

\* C2: the text returned by inline() is the input with the span of each
\* matched and resolved call replaced by exactly the expression generated for
\* that call, and identical to the input everywhere else.
C2_OutputIsSpanwiseReplacement ==
    ipc = "done" => code = SpanwiseFrom(input, 1)

\* the tree holds a string leaf at the end of the path, below nodes only
HasLeafAt(tree, path) == \E l \in Leaves(tree) : l.path = path

\* the turn of the loop handled a call that is static: it has arguments and
\* its parameters, if any, are an object literal
Static(h) == h.kind \in {"missing", "inlined"}

\* C3: when the default locale of a call has no value for the call's key, the
\* call's text is left unmodified, the miss is reported exactly once for the
\* call, and every other call of the code block is still resolved and inlined.
C3_DefaultMissSkipsOnlyThatCall ==
    /\ \A i \in 1..Len(hist) :
          LET h == hist[i] IN
          Static(h) =>
             IF HasLeafAt(translation[h.def], Split(h.key, "."))
             THEN h.kind = "inlined"
             ELSE /\ h.kind = "missing"
                  /\ h.after = h.before
                  /\ h.logs = <<LogLine(h.def, h.key, TRUE)>>
    /\ ipc = "done" => Len(hist) = Len(matches)

\* the start of the term of locale l in a generated line
TermOf(l) == globalLang \o <<" === ">> \o quoteValue(<<l>>) \o <<" && ">>

\* C4: when the default locale's value is present and a non-default active
\* locale has no value for the key, that locale is logged and the generated
\* expression holds no term for it, and one term for every other non-default
\* locale.
C4_MissingLocaleOmitted ==
    \A i \in Inlined :
        LET h == hist[i] IN
        \A n \in 1..Len(h.langs) :
            LET l == h.langs[n] IN
            l # h.def =>
                IF l \in h.have
                THEN Count(h.line, TermOf(l)) = 1
                ELSE /\ Count(h.line, TermOf(l)) = 0
                     /\ \E j \in 1..Len(h.logs) : h.logs[j] = LogLine(l, h.key, FALSE)

\* the files of a directory whose text is JSON
JsonFiles(dir) == { i \in 1..Len(dir.files) : dir.files[i].valid }

\* C5: for every locale whose asset directory exists before a run, every
\* leaf stored in the locale's asset files before the run is present with the
\* same value in the assets the run writes.
C5_PersistedValuesWin ==
    xpc = "done" =>
        \A l \in Range(ExtractLangs) :
            disk0[l].exists =>
                \A i \in JsonFiles(disk0[l]) :
                    \A leaf \in Leaves(disk0[l].files[i].tree) :
                        \E w \in 1..Len(wrote) :
                            wrote[w].lang = l /\ leaf \in Leaves(wrote[w].file.tree)

Unreadable == { f \in 1..Len(sourceFiles) : ~sourceFiles[f].readable }

\* C6: a run does not fail because of a single source file that cannot be
\* read: it skips the file and goes on to the Writing phase.
C6_SingleBadFileTolerated ==
    Cardinality(Unreadable) <= 1 => xpc # "failedSource"

\* C7: every asset file written by writeAssets holds a sorted tree.
C7_WrittenTreesSorted ==
    \A w \in 1..Len(wrote) : IsSorted(wrote[w].file.tree)

\* the text before the first occurrence of sep in s, all of s without one
BeforeFirst(s, sep) ==
    IF IndexOf(s, <<sep>>) = 0 THEN s ELSE SubSeq(s, 1, IndexOf(s, <<sep>>) - 1)

\* the text after the first occurrence of sep in s, empty without one
AfterFirst(s, sep) ==
    IF IndexOf(s, <<sep>>) = 0 THEN <<>> ELSE SubSeq(s, IndexOf(s, <<sep>>) + 1, Len(s))

\* C8: the first argument is split at the first occurrence of the separator
\* only: extraction seeds the key before it with all the text after it, and
\* inlining looks up the key before it.
C8_SplitAtFirstSeparator ==
    /\ xpc \in {"reading", "done", "failedAssets"} =>
          /\ Len(seeds) = Len(Concat(sources))
          /\ \A i \in 1..Len(seeds) :
                /\ seeds[i].key = BeforeFirst(Concat(sources)[i], "@@")
                /\ seeds[i].value = AfterFirst(Concat(sources)[i], "@@")
    /\ \A i \in 1..Len(hist) :
          Static(hist[i]) =>
             hist[i].key = BeforeFirst(trimQuotes(getParams(Signature(hist[i].fn))[1]), "@@")

\* a parsed call that is to be extracted: its first argument is a string
\* literal without a placeholder and none of the arguments 1, 2, 3 is an
\* identifier or a call expression
Extractable(args) ==
    /\ ArgAt(args, 0).type = "Literal"
    /\ ~HasPlaceholder(ArgAt(args, 0).value)
    /\ \A i \in 1..3 : ArgAt(args, i).type \notin {"Identifier", "CallExpression"}

\* the first arguments of the extractable calls, in order
ExtractableKeys(exprs) ==
    LET kept == SelectSeq(exprs, LAMBDA e : e # <<>> /\ Extractable(e))
    IN  [i \in 1..Len(kept) |-> ArgAt(kept[i], 0).value]

\* C9: every scanned call with a first argument is classified exactly once,
\* as extracted (its key added, keys incremented) if it is extractable and as
\* dynamic (no key added, dynamic incremented) if it is not.
C9_ClassifiedOnce ==
    /\ \A f \in 1..Len(task) :
          task[f] = "done" => sources[f] = ExtractableKeys(sourceFiles[f].exprs)
    /\ (task # <<>> /\ \A f \in 1..Len(task) : task[f] = "done") =>
          /\ stats.keys = Len(Concat([f \in 1..Len(task) |-> ExtractableKeys(sourceFiles[f].exprs)]))
          /\ stats.keys + stats.dynamic =
                Len(Concat([f \in 1..Len(task) |->
                        SelectSeq(sourceFiles[f].exprs, LAMBDA e : e # <<>>)]))

\* C10: getValue returns the leaf if and only if walking the segments of the
\* key from the root passes through nodes only and ends at a string leaf, and
\* no value otherwise.
C10_GetValueIffLeaf ==
    lpc = "done" =>
        LET path == Split(lkKey, ".")
            found == lkData.t = "obj" /\ HasLeafAt(lkData.sub, path)
        IN  IF found
            THEN \E l \in Leaves(lkData.sub) :
                    l.path = path /\ lkResult = Found(quoteValue(l.v))
            ELSE lkResult = NoValue

\* the top-level properties of an object literal: the name of each is the
\* text before its first colon, its value expression all the text after it
PropsOf(obj) ==
    LET pieces == getParams(TrimBrackets(obj))
    IN  [i \in 1..Len(pieces) |-> [name |-> Trim(BeforeFirst(pieces[i], ":")),
                                   expr |-> Trim(AfterFirst(pieces[i], ":"))]]

RECURSIVE Interpolated(_, _, _)
\* value from position i on, every placeholder whose name is the name of a
\* property of props replaced by the interpolation of that property's value
\* expression, each placeholder on its own; all else as it is
Interpolated(value, i, props) ==
    IF i > Len(value) THEN <<>>
    ELSE LET e == PlaceholderEnd(value, i)
             Named(p) == props[p].name = PlaceholderName(value, i, e)
         IN  IF e = 0 THEN <<value[i]>> \o Interpolated(value, i + 1, props)
             ELSE (IF \E p \in 1..Len(props) : Named(p)
                   THEN interpolateParam(props[CHOOSE p \in 1..Len(props) : Named(p)].expr)
                   ELSE SubSeq(value, i, e))
                  \o Interpolated(value, e + 1, props)

\* the interpolation-parameters argument of the call of a turn of the loop
ParamsArg(h) == ParamAt(getParams(Signature(h.fn)), 1)

\* C11: when a call has an interpolation-parameters object literal, the value
\* resolved for each locale is the locale's leaf with every placeholder whose
\* name is a top-level property of the object replaced by the interpolation
\* of that property's value expression (every property, every occurrence,
\* each placeholder independently), the other placeholders left as they are,
\* in backticks.
C11_PlaceholdersInterpolated ==
    \A i \in Inlined :
        LET h == hist[i] IN
        ParamsArg(h) # <<>> =>
            \A l \in h.have :
                \A leaf \in Leaves(translation[l]) :
                    leaf.path = Split(h.key, ".") =>
                        h.values[l] = quoteValue(Interpolated(leaf.v, 1, PropsOf(ParamsArg(h))))

\* the calls of class c of the source files whose task is done, in the order
\* of the enumerated files
CallsOfClass(c) ==
    Concat([f \in 1..Len(task) |->
              IF task[f] = "done"
              THEN SelectSeq(sourceFiles[f].exprs, LAMBDA e : ClassifyExpr(e) = c)
              ELSE <<>>])

RECURSIVE FirstArgs(_)
\* the first arguments of the calls, in order
FirstArgs(calls) ==
    IF calls = <<>> THEN <<>>
    ELSE <<ArgAt(Head(calls), 0).value>> \o FirstArgs(Tail(calls))

\* the key sequence of the run: the first arguments of the calls classified
\* static, file after file in the order of the enumerated files
KeysInFileOrder == FirstArgs(CallsOfClass("keys"))

RECURSIVE SeedsFrom(_)
\* the key and the default value of each collected key, in order
SeedsFrom(keys) ==
    IF keys = <<>> THEN <<>>
    ELSE <<SeedOf(Head(keys), "@@")>> \o SeedsFrom(Tail(keys))

SeedsInFileOrder == SeedsFrom(KeysInFileOrder)

\* the tree of locale l that the run builds from its inputs: the keys deep-set
\* in the order of the files, then the persisted assets of the locale merged
TreeOfRun(l) ==
    ReadAssetsTree(SeedAll(<<>>, SeedsInFileOrder, "."), disk0[l])

\* C12: in whatever order the reads of the source files and of the locales'
\* assets settle, the counters equal the numbers of calls classified static
\* and dynamic over the files read so far, the collected keys follow the
\* order of the enumerated files, and the tree of each locale whose assets
\* were read, like the files written for it, is the one determined by the
\* source files and the persisted assets alone.
C12_OutcomeIndependentOfSettleOrder ==
    /\ stats.keys = Len(CallsOfClass("keys"))
    /\ stats.dynamic = Len(CallsOfClass("dynamic"))
    /\ xpc \in {"reading", "failedAssets", "done"} =>
          /\ Concat(sources) = KeysInFileOrder
          /\ seeds = SeedsInFileOrder
          /\ \A l \in loaded :
                ~ReadAssetsThrows(disk0[l]) => store[l] = TreeOfRun(l)
    /\ xpc = "done" =>
          wrote = WrittenFrom(ExtractLangs, [l \in Range(ExtractLangs) |-> TreeOfRun(l)])

\* C12 witness: a run of two source files, both with static calls and one
\* with a dynamic call, whose second file settled before the first and whose
\* second locale settled before the first, has written its assets
C12_Witness ==
    /\ xpc = "done"
    /\ settledFiles = <<2, 1>>
    /\ settledLangs = <<ExtractLangs[2], ExtractLangs[1]>>
    /\ sources[1] # <<>> /\ sources[2] # <<>>
    /\ stats.keys >= 2 /\ stats.dynamic >= 1
    /\ \E l \in Range(ExtractLangs) : disk0[l].exists /\ disk0[l].files # <<>>

\* the results of evaluating an expression: a string, undefined, or no
\* result because the text is not the expression of a fallback chain
Yield(text) == [kind |-> "string", text |-> text]
Undefined == [kind |-> "undefined", text |-> <<>>]
NotAnExpression == [kind |-> "error", text |-> <<>>]

\* the closing back quote of the template literal that opens at i, 0 when
\* there is none
CloseOf(line, i) ==
    IF \E j \in (i + 1)..Len(line) : line[j] = "BACKTICK"
    THEN CHOOSE j \in (i + 1)..Len(line) :
            line[j] = "BACKTICK" /\ \A m \in (i + 1)..(j - 1) : line[m] # "BACKTICK"
    ELSE 0

\* the operand at position i of line: a template literal (its text is what is
\* between the back quotes) or the identifier undefined; next is the position
\* after it
Operand(line, i) ==
    IF i >= 1 /\ i <= Len(line) /\ line[i] = "undefined"
    THEN [ok |-> TRUE, defined |-> FALSE, text |-> <<>>, next |-> i + 1]
    ELSE IF i >= 1 /\ i <= Len(line) /\ line[i] = "BACKTICK" /\ CloseOf(line, i) # 0
    THEN [ok |-> TRUE, defined |-> TRUE, text |-> SubSeq(line, i + 1, CloseOf(line, i) - 1),
          next |-> CloseOf(line, i) + 1]
    ELSE [ok |-> FALSE, defined |-> FALSE, text |-> <<>>, next |-> 0]

RECURSIVE EvalFrom(_, _, _)
\* the value of the expression that starts at position i of line when the
\* global locale variable equals L.  a === b && c || rest is (a === b && c)
\* || rest: it is c when a === b and c is truthy (a string that is not
\* empty), and rest otherwise; the last operand is the value as it is.
EvalFrom(line, i, L) ==
    IF i <= Len(line) /\ line[i] = globalLang[1]
    THEN LET loc == Operand(line, i + 2)
             v == Operand(line, loc.next + 1)
             rest == EvalFrom(line, v.next + 1, L)
         IN  IF ~(/\ i + 1 <= Len(line) /\ line[i + 1] = " === "
                  /\ loc.ok /\ loc.defined
                  /\ loc.next <= Len(line) /\ line[loc.next] = " && "
                  /\ v.ok
                  /\ v.next <= Len(line) /\ line[v.next] = " || ")
             THEN NotAnExpression
             ELSE IF rest.kind = "error" THEN NotAnExpression
             ELSE IF loc.text = <<L>> /\ v.defined /\ v.text # <<>> THEN Yield(v.text)
             ELSE rest
    ELSE LET v == Operand(line, i)
         IN  IF v.ok /\ v.next = Len(line) + 1
             THEN (IF v.defined THEN Yield(v.text) ELSE Undefined)
             ELSE NotAnExpression

\* the text inside the quotes of a quoted value
Unquote(v) == SubSeq(v, 2, Len(v) - 1)

\* the values the global locale variable takes: the locales of the options
\* and a locale that is not supported
RuntimeLangs == AllLangs \cup {"fr-FR"}

\* argument 3 of the call of a turn of the loop
LangArg(h) == ParamAt(getParams(Signature(h.fn)), 3)

\* argument 3 is a string literal: a text between two quotes of one kind
IsLiteral(arg) ==
    /\ Len(arg) >= 2
    /\ arg[1] \in Quotes /\ arg[Len(arg)] = arg[1]
    /\ \A j \in 2..(Len(arg) - 1) : arg[j] # arg[1]

\* argument 3 is a literal equal to a supported locale
IsOverride(h) ==
    /\ IsLiteral(LangArg(h))
    /\ \E n \in 1..Len(opts.supportedLangs) : Unquote(LangArg(h)) = <<opts.supportedLangs[n]>>

\* the active locales of a call, and its default locale
ActiveLangs(h) == IF IsOverride(h) THEN Unquote(LangArg(h)) ELSE opts.supportedLangs
ActiveDefault(h) == IF IsOverride(h) THEN Unquote(LangArg(h))[1] ELSE opts.defaultLang

\* C13: the active set of a resolved call is the supported list with the
\* configured default, unless argument 3 is a literal equal to a supported
\* locale: then it is that locale alone, which is the default, and the
\* expression is its value alone.  Evaluated with the global locale variable
\* equal to L, the expression yields the value of L when L is a non-default
\* locale of the active set whose value is present and not empty, and the
\* default locale's value for every other L.
C13_DispatchYieldsLocaleValue ==
    \A i \in Inlined :
        LET h == hist[i] IN
        /\ h.langs = ActiveLangs(h)
        /\ h.def = ActiveDefault(h)
        /\ IsOverride(h) => h.line = h.values[h.def]
        /\ \A L \in RuntimeLangs :
              EvalFrom(h.line, 1, L) =
                 IF /\ L # h.def
                    /\ L \in Range(h.langs)
                    /\ L \in h.have
                    /\ Unquote(h.values[L]) # <<>>
                 THEN Yield(Unquote(h.values[L]))
                 ELSE Yield(Unquote(h.values[h.def]))

====
